---- MODULE Spec2Model ----
(***************************************************************************)
(* The four example scripts of owenjchen/ai-agent: basic_agent.py,         *)
(* agent_with_tools.py, agent_with_handoffs.py, agent_with_guardrails.py.  *)
(*                                                                         *)
(* Python values are written as follows.  A str is a TLA+ string; an      *)
(* Optional[str] is a sequence of length at most one: <<>> is None and    *)
(* <<s>> is the string s.                                                  *)
(***************************************************************************)
EXTENDS Integers, Sequences, FiniteSets, TLC

VARIABLES
    \* ---- client configuration (all four scripts)
    script,               \* which script runs
    env,                  \* os.environ after load_dotenv()
    cpc,                  \* position in the configuration prefix of main()
    azure_openai_client,  \* keyword arguments given to AsyncAzureOpenAI
    model_config,         \* keyword arguments given to OpenAIChatCompletionsModel
    \* ---- guardrail wrappers (agent_with_guardrails.py)
    guardrail,            \* which wrapper is called
    final_output,         \* result.final_output_as(...) of the classification agent
    guardrail_output,     \* the GuardrailFunctionOutput returned, <<>> before the call
    \* ---- the query loop of main() (all four scripts)
    pc,                   \* "loop", "awaiting", "done" (main returned), "raised" (main raised)
    k,                    \* index of the current query in the list
    stdout,               \* the lines printed so far
    calls,                \* per query, how many top-level Runner.run calls were started
    inflight,             \* queries whose top-level Runner.run call has not completed
    guard_results,        \* outputs of the input guardrails in the current run
    tripped,              \* per query, the input guardrails whose tripwire fired
    current_agent,        \* the agent holding the conversation in the current run
    handoff_history,      \* the handoffs made in the current run
    \* ---- the arithmetic tool (agent_with_tools.py)
    expression,           \* the argument of calculate
    calc                  \* what the call did, <<>> before the call

configVars == <<env, cpc, azure_openai_client, model_config>>
guardVars  == <<guardrail, final_output, guardrail_output>>
mainVars   == <<pc, k, stdout, calls, inflight, guard_results, tripped,
                current_agent, handoff_history>>
calcVars   == <<expression, calc>>
vars == <<script, configVars, guardVars, mainVars, calcVars>>

None == <<>>
Some(s) == <<s>>

Scripts == {"basic", "tools", "handoffs", "guardrails"}

(***************************************************************************)
(* Client configuration                                                    *)
(***************************************************************************)
EnvNames == {"AZURE_OPENAI_API_KEY", "AZURE_OPENAI_API_VERSION",
             "AZURE_OPENAI_ENDPOINT", "AZURE_OPENAI_DEPLOYMENT"}

\* Values an environment variable is given here; "" is a variable set to
\* the empty string.
EnvValues == {"", "2023-12-01-preview", "v"}

Environments == [EnvNames -> {None} \cup {Some(v) : v \in EnvValues}]

\* os.getenv(name): the value, or None when the variable is unset.
getenv(e, name) == e[name]

\* os.getenv(name, default): the default only when the variable is unset.
getenv_default(e, name, default) ==
    IF e[name] = None THEN Some(default) ELSE e[name]

BasicClient(e) ==
    [api_key        |-> getenv(e, "AZURE_OPENAI_API_KEY"),
     api_version    |-> getenv_default(e, "AZURE_OPENAI_API_VERSION", "2024-05-01-preview"),
     azure_endpoint |-> getenv(e, "AZURE_OPENAI_ENDPOINT")]

ToolsClient(e) ==
    [api_key        |-> getenv(e, "AZURE_OPENAI_API_KEY"),
     api_version    |-> getenv_default(e, "AZURE_OPENAI_API_VERSION", "2024-05-01-preview"),
     azure_endpoint |-> getenv(e, "AZURE_OPENAI_ENDPOINT")]

HandoffsClient(e) ==
    [api_key        |-> getenv(e, "AZURE_OPENAI_API_KEY"),
     api_version    |-> getenv_default(e, "AZURE_OPENAI_API_VERSION", "2024-05-01-preview"),
     azure_endpoint |-> getenv(e, "AZURE_OPENAI_ENDPOINT")]

\* GuardrailsClient with the default written as `os.getenv(name) or default`,
\* which also replaces a variable set to the empty string.
GuardrailsClientOrDefault(e) ==
    [api_key        |-> getenv(e, "AZURE_OPENAI_API_KEY"),
     api_version    |-> IF getenv(e, "AZURE_OPENAI_API_VERSION") \in {None, Some("")}
                        THEN Some("2024-05-01-preview")
                        ELSE getenv(e, "AZURE_OPENAI_API_VERSION"),
     azure_endpoint |-> getenv(e, "AZURE_OPENAI_ENDPOINT")]

GuardrailsClient(e) ==
    [api_key        |-> getenv(e, "AZURE_OPENAI_API_KEY"),
     api_version    |-> getenv_default(e, "AZURE_OPENAI_API_VERSION", "2024-05-01-preview"),
     azure_endpoint |-> getenv(e, "AZURE_OPENAI_ENDPOINT")]

BasicModel(e, client) ==
    [model |-> getenv(e, "AZURE_OPENAI_DEPLOYMENT"), openai_client |-> client]

ToolsModel(e, client) ==
    [model |-> getenv(e, "AZURE_OPENAI_DEPLOYMENT"), openai_client |-> client]

HandoffsModel(e, client) ==
    [model |-> getenv(e, "AZURE_OPENAI_DEPLOYMENT"), openai_client |-> client]

GuardrailsModel(e, client) ==
    [model |-> getenv(e, "AZURE_OPENAI_DEPLOYMENT"), openai_client |-> client]

ClientOf(s, e) ==
    CASE s = "basic"      -> BasicClient(e)
      [] s = "tools"      -> ToolsClient(e)
      [] s = "handoffs"   -> HandoffsClient(e)
      [] s = "guardrails" -> GuardrailsClient(e)

ModelOf(s, e, client) ==
    CASE s = "basic"      -> BasicModel(e, client)
      [] s = "tools"      -> ToolsModel(e, client)
      [] s = "handoffs"   -> HandoffsModel(e, client)
      [] s = "guardrails" -> GuardrailsModel(e, client)

ConfigIdle ==
    /\ env = [n \in EnvNames |-> None]
    /\ cpc = "idle"
    /\ azure_openai_client = None
    /\ model_config = None

ConfigInit ==
    /\ script \in Scripts
    /\ env \in Environments
    /\ cpc = "start"
    /\ azure_openai_client = None
    /\ model_config = None

\* azure_openai_client = AsyncAzureOpenAI(api_key=..., api_version=..., azure_endpoint=...)
CreateClient ==
    /\ cpc = "start"
    /\ azure_openai_client' = Some(ClientOf(script, env))
    /\ cpc' = "client"
    /\ UNCHANGED <<script, env, model_config, guardVars, mainVars, calcVars>>

\* OpenAIChatCompletionsModel(model=os.getenv("AZURE_OPENAI_DEPLOYMENT"), openai_client=...)
CreateModel ==
    /\ cpc = "client"
    /\ model_config' = Some(ModelOf(script, env, azure_openai_client[1]))
    /\ cpc' = "model"
    /\ UNCHANGED <<script, env, azure_openai_client, guardVars, mainVars, calcVars>>

(***************************************************************************)
(* Guardrail wrappers                                                      *)
(***************************************************************************)
MaxReasoningLen == 3

ReasoningChars == {"a", "b"}

RECURSIVE StringsUpTo(_)
StringsUpTo(n) ==
    IF n = 0 THEN {""}
    ELSE LET shorter == StringsUpTo(n - 1)
         IN shorter \cup {s \o c : s \in shorter, c \in ReasoningChars}

Reasonings == StringsUpTo(MaxReasoningLen)

ContentSafetyOutput == [is_safe : BOOLEAN, reasoning : Reasonings]
HomeworkOutput == [is_homework : BOOLEAN, reasoning : Reasonings]

\* content_safety_guardrail with the tripwire set to is_safe itself.
content_safety_guardrail_not_negated(out) ==
    [output_info        |-> out,
     tripwire_triggered |-> out.is_safe,
     message            |-> IF ~out.is_safe
                            THEN Some("Content safety check: " \o out.reasoning)
                            ELSE None]

\* GuardrailFunctionOutput(output_info=..., tripwire_triggered=..., message=...)
content_safety_guardrail(out) ==
    [output_info        |-> out,
     tripwire_triggered |-> ~out.is_safe,
     message            |-> IF ~out.is_safe
                            THEN Some("Content safety check: " \o out.reasoning)
                            ELSE None]

\* homework_guardrail with the bare reasoning as its message.
homework_guardrail_bare_reasoning(out) ==
    [output_info        |-> out,
     tripwire_triggered |-> out.is_homework,
     message            |-> IF out.is_homework THEN Some(out.reasoning) ELSE None]

homework_guardrail(out) ==
    [output_info        |-> out,
     tripwire_triggered |-> out.is_homework,
     message            |-> IF out.is_homework
                            THEN Some("Homework policy: " \o out.reasoning)
                            ELSE None]

GuardIdle ==
    /\ guardrail = "none"
    /\ final_output = None
    /\ guardrail_output = None

GuardInit ==
    /\ \/ guardrail = "content_safety" /\ final_output \in ContentSafetyOutput
       \/ guardrail = "homework" /\ final_output \in HomeworkOutput
    /\ guardrail_output = None

ContentSafetyGuardrail ==
    /\ guardrail = "content_safety"
    /\ guardrail_output = None
    /\ guardrail_output' = Some(content_safety_guardrail(final_output))
    /\ UNCHANGED <<script, guardrail, final_output, configVars, mainVars, calcVars>>

HomeworkGuardrail ==
    /\ guardrail = "homework"
    /\ guardrail_output = None
    /\ guardrail_output' = Some(homework_guardrail(final_output))
    /\ UNCHANGED <<script, guardrail, final_output, configVars, mainVars, calcVars>>

(***************************************************************************)
(* The arithmetic tool calculate(expression) of agent_with_tools.py        *)
(*                                                                         *)
(* An expression is the sequence of its tokens, each token its text;       *)
(* white space between tokens means nothing to eval and is left out.       *)
(* eval first compiles the whole text (SyntaxError) and only then          *)
(* evaluates it, left to right.                                            *)
(*                                                                         *)
(* A value is [k, n, d, neg, lvl]: an int n (d = 1), a float, the empty    *)
(* tuple, or the site module's Quitter object bound to exit and quit.      *)
(* A float is written by the rational n/d it stands for, its sign bit neg  *)
(* (so that -0.0 is told from 0.0) and how close it is to n/d:             *)
(*   "exact"    it is n/d (d a power of two);                              *)
(*   "rounded"  it is the double nearest to n/d (one rounding);            *)
(*   "approx"   it is n/d up to the rounding errors of several operations; *)
(*   "unknown"  nothing is known of it (see Evaluate).                     *)
(***************************************************************************)
NumberTokens == {"0", "2", "3", "7", "15", "24"}

\* int(literal) for the literals above.
NumberValue(t) ==
    CASE t = "0" -> 0 [] t = "2" -> 2 [] t = "3" -> 3
      [] t = "7" -> 7 [] t = "15" -> 15 [] t = "24" -> 24

NameTokens == {"x", "exit", "quit"}

\* Names bound where eval runs to an object whose call raises SystemExit.
QuitterNames == {"exit", "quit"}

Abs(n) == IF n < 0 THEN -n ELSE n

RECURSIVE Gcd(_, _)
Gcd(a, b) == IF b = 0 THEN a ELSE Gcd(b, a % b)

IntValue(n) == [k |-> "int", n |-> n, d |-> 1, neg |-> n < 0, lvl |-> "exact"]

RECURSIVE IsPowerOfTwo(_)
IsPowerOfTwo(d) == d = 1 \/ (d % 2 = 0 /\ IsPowerOfTwo(d \div 2))

\* The float an operation gives whose exact result on the numbers its
\* operands stand for is n/d (d # 0); neg is the sign bit of a zero result,
\* lvls the levels of the operands.
FloatValue(n, d, neg, lvls) ==
    LET g  == Gcd(Abs(n), Abs(d))
        nn == IF d < 0 THEN -(n \div g) ELSE n \div g
        dd == Abs(d) \div g
    IN IF "unknown" \in lvls
       THEN [k |-> "float", n |-> 0, d |-> 1, neg |-> FALSE, lvl |-> "unknown"]
       ELSE [k |-> "float", n |-> nn, d |-> dd,
             neg |-> IF nn = 0 THEN neg ELSE nn < 0,
             lvl |-> IF lvls # {"exact"} THEN "approx"
                     ELSE IF IsPowerOfTwo(dd) THEN "exact" ELSE "rounded"]

UnknownFloat == FloatValue(0, 1, FALSE, {"unknown"})

TupleValue == [k |-> "tuple", n |-> 0, d |-> 1, neg |-> FALSE, lvl |-> "exact"]
QuitterValue == [k |-> "quitter", n |-> 0, d |-> 1, neg |-> FALSE, lvl |-> "exact"]

IsNumber(v) == v.k \in {"int", "float"}

Returned(v) == [st |-> "ok", v |-> v, exc |-> ""]
Raised(class) == [st |-> "raise", v |-> TupleValue, exc |-> class]

\* Whether a float may or may not be zero: its rational is zero and it is
\* known only up to rounding errors.
MaybeZero(v) == v.lvl = "unknown" \/ (v.lvl = "approx" /\ v.n = 0)

\* left op right on two values.  `zero` says how a division by a MaybeZero
\* float goes: TRUE, the float is zero; FALSE, it is not.
BinaryOp(op, a, b, zero) ==
    IF IsNumber(a) /\ IsNumber(b)
    THEN LET lvls == {a.lvl, b.lvl}
         IN IF op = "/"
            THEN IF MaybeZero(b)
                 THEN IF zero THEN Raised("ZeroDivisionError") ELSE Returned(UnknownFloat)
                 ELSE IF b.n = 0 THEN Raised("ZeroDivisionError")
                 ELSE Returned(FloatValue(a.n * b.d, a.d * b.n, a.neg # b.neg, lvls))
            ELSE IF a.k = "int" /\ b.k = "int"
                 THEN Returned(IntValue(CASE op = "+" -> a.n + b.n
                                          [] op = "-" -> a.n - b.n
                                          [] op = "*" -> a.n * b.n))
                 ELSE CASE op = "+" -> Returned(FloatValue(a.n * b.d + b.n * a.d, a.d * b.d,
                                                           a.neg /\ b.neg, lvls))
                        [] op = "-" -> Returned(FloatValue(a.n * b.d - b.n * a.d, a.d * b.d,
                                                           a.neg /\ ~b.neg, lvls))
                        [] op = "*" -> Returned(FloatValue(a.n * b.n, a.d * b.d,
                                                           a.neg # b.neg, lvls))
    ELSE IF \/ op = "+" /\ a.k = "tuple" /\ b.k = "tuple"
            \/ op = "*" /\ a.k = "tuple" /\ b.k = "int"
            \/ op = "*" /\ a.k = "int" /\ b.k = "tuple"
         THEN Returned(TupleValue)
         ELSE Raised("TypeError")

\* op operand for the unary signs.
UnaryOp(op, a) ==
    IF ~IsNumber(a) THEN Raised("TypeError")
    ELSE IF op = "+" THEN Returned(a)
    ELSE IF a.k = "int" THEN Returned(IntValue(-a.n))
    ELSE Returned(FloatValue(-a.n, a.d, ~a.neg, {a.lvl}))

\* ---- compile: the grammar of sums, terms, factors, calls and atoms
NoParse == [ok |-> FALSE, pos |-> 0, ast |-> <<>>]
Parsed(pos, ast) == [ok |-> TRUE, pos |-> pos, ast |-> ast]

Is(toks, p, texts) == p <= Len(toks) /\ toks[p] \in texts

\* One grammar rule applied at position p; `left` is the operand already
\* read, for the rules that continue it.
\*   sum:      term (("+" | "-") term)*
\*   term:     factor (("*" | "/") factor)*
\*   factor:   ("+" | "-") factor | atom call*
\*   call:     "(" ")" | "(" sum ")" | "(" "*" sum ")"
\*   atom:     NUMBER | NAME | "(" ")" | "(" sum ")"
RECURSIVE Parse(_, _, _, _)
Parse(rule, toks, p, left) ==
    CASE rule = "atom" ->
            IF Is(toks, p, NumberTokens)
            THEN Parsed(p + 1, [n |-> "num", v |-> NumberValue(toks[p])])
            ELSE IF Is(toks, p, NameTokens)
            THEN Parsed(p + 1, [n |-> "name", id |-> toks[p]])
            ELSE IF Is(toks, p, {"("})
            THEN IF Is(toks, p + 1, {")"})
                 THEN Parsed(p + 2, [n |-> "tuple"])
                 ELSE LET e == Parse("sum", toks, p + 1, <<>>)
                      IN IF e.ok /\ Is(toks, e.pos, {")"})
                         THEN Parsed(e.pos + 1, e.ast)
                         ELSE NoParse
            ELSE NoParse
      [] rule = "calls" ->
            IF ~Is(toks, p, {"("}) THEN Parsed(p, left)
            ELSE IF Is(toks, p + 1, {")"})
            THEN Parse("calls", toks, p + 2,
                       [n |-> "call", f |-> left, args |-> <<>>, star |-> FALSE])
            ELSE LET star == Is(toks, p + 1, {"*"})
                     e    == Parse("sum", toks, IF star THEN p + 2 ELSE p + 1, <<>>)
                 IN IF e.ok /\ Is(toks, e.pos, {")"})
                    THEN Parse("calls", toks, e.pos + 1,
                               [n |-> "call", f |-> left, args |-> <<e.ast>>,
                                star |-> star])
                    ELSE NoParse
      [] rule = "factor" ->
            IF Is(toks, p, {"+", "-"})
            THEN LET f == Parse("factor", toks, p + 1, <<>>)
                 IN IF f.ok
                    THEN Parsed(f.pos, [n |-> "un", op |-> toks[p], a |-> f.ast])
                    ELSE NoParse
            ELSE LET a == Parse("atom", toks, p, <<>>)
                 IN IF a.ok THEN Parse("calls", toks, a.pos, a.ast) ELSE NoParse
      [] rule = "term" ->
            LET f == Parse("factor", toks, p, <<>>)
            IN IF f.ok THEN Parse("term_rest", toks, f.pos, f.ast) ELSE NoParse
      [] rule = "term_rest" ->
            IF ~Is(toks, p, {"*", "/"}) THEN Parsed(p, left)
            ELSE LET r == Parse("factor", toks, p + 1, <<>>)
                 IN IF r.ok
                    THEN Parse("term_rest", toks, r.pos,
                               [n |-> "bin", op |-> toks[p], l |-> left, r |-> r.ast])
                    ELSE NoParse
      [] rule = "sum" ->
            LET t == Parse("term", toks, p, <<>>)
            IN IF t.ok THEN Parse("sum_rest", toks, t.pos, t.ast) ELSE NoParse
      [] rule = "sum_rest" ->
            IF ~Is(toks, p, {"+", "-"}) THEN Parsed(p, left)
            ELSE LET r == Parse("term", toks, p + 1, <<>>)
                 IN IF r.ok
                    THEN Parse("sum_rest", toks, r.pos,
                               [n |-> "bin", op |-> toks[p], l |-> left, r |-> r.ast])
                    ELSE NoParse

\* compile(expression, "<string>", "eval"): the whole text is one expression.
Compile(toks) ==
    LET e == Parse("sum", toks, 1, <<>>)
    IN IF e.ok /\ e.pos = Len(toks) + 1 THEN e ELSE NoParse

\* ---- evaluate, operands left to right, the callee before its argument
RECURSIVE Evaluate(_, _)
Evaluate(ast, zero) ==
    CASE ast.n = "num"   -> Returned(IntValue(ast.v))
      [] ast.n = "tuple" -> Returned(TupleValue)
      [] ast.n = "name"  -> IF ast.id \in QuitterNames THEN Returned(QuitterValue)
                            ELSE Raised("NameError")
      [] ast.n = "un"    -> LET a == Evaluate(ast.a, zero)
                            IN IF a.st = "raise" THEN a ELSE UnaryOp(ast.op, a.v)
      [] ast.n = "bin"   -> LET l == Evaluate(ast.l, zero)
                            IN IF l.st = "raise" THEN l
                               ELSE LET r == Evaluate(ast.r, zero)
                                    IN IF r.st = "raise" THEN r
                                       ELSE BinaryOp(ast.op, l.v, r.v, zero)
      [] ast.n = "call"  -> LET f == Evaluate(ast.f, zero)
                            IN IF f.st = "raise" THEN f
                               ELSE LET a == IF ast.args = <<>> THEN Returned(TupleValue)
                                             ELSE Evaluate(ast.args[1], zero)
                                    IN IF a.st = "raise" THEN a
                                       ELSE IF ast.star /\ a.v.k # "tuple"
                                       THEN Raised("TypeError")
                                       ELSE IF f.v.k = "quitter" THEN Raised("SystemExit")
                                       ELSE Raised("TypeError")

\* eval(expression), a division by a MaybeZero float going as `zero` says.
eval(toks, zero) ==
    LET c == Compile(toks)
    IN IF c.ok THEN Evaluate(c.ast, zero) ELSE Raised("SyntaxError")

\* isinstance(e, Exception): SystemExit derives from BaseException only.
IsException(class) == class # "SystemExit"

\* ---- str(result)
RECURSIVE FractionDigits(_, _, _)
\* The decimal digits of r/d (0 <= r < d): <<digits>>, or <<>> when there
\* are more than `left` of them.
FractionDigits(r, d, left) ==
    IF r = 0 THEN <<"">>
    ELSE IF left = 0 THEN <<>>
    ELSE LET rest == FractionDigits((r * 10) % d, d, left - 1)
         IN IF rest = <<>> THEN <<>>
            ELSE <<ToString((r * 10) \div d) \o rest[1]>>

\* repr of a float is the shortest decimal that reads back as the same
\* float.  For an exact float of few digits (at most 6 before and 8 after
\* the point, and not below 0.0001, where repr turns to the exponent
\* form) that is its decimal expansion.  Any other float is written by
\* what is known of it: repr(n/d) is the repr of the double nearest to n/d,
\* approx(n/d) that of a double near n/d, float(?) that of an unknown float.
FloatStr(v) ==
    LET a      == Abs(v.n)
        digits == FractionDigits(a % v.d, v.d, 8)
        q      == ToString(v.n) \o "/" \o ToString(v.d)
    IN CASE v.lvl = "unknown" -> "float(?)"
         [] v.lvl = "approx"  -> "approx(" \o q \o ")"
         [] v.lvl = "rounded" -> "repr(" \o q \o ")"
         [] v.lvl = "exact"   ->
                IF digits = <<>> \/ a >= 1000000 * v.d \/ (a # 0 /\ a * 10000 < v.d)
                THEN "repr(" \o q \o ")"
                ELSE (IF v.neg THEN "-" ELSE "") \o ToString(a \div v.d) \o "."
                     \o (IF digits[1] = "" THEN "0" ELSE digits[1])

str(v) ==
    CASE v.k = "int"     -> ToString(v.n)
      [] v.k = "float"   -> FloatStr(v)
      [] v.k = "tuple"   -> "()"
      [] v.k = "quitter" -> "Use exit() or Ctrl-D (i.e. EOF) to exit"

\* str(e) of the exception eval raised.
ExceptionStr(class) ==
    CASE class = "SyntaxError"       -> "invalid syntax (<string>, line 1)"
      [] class = "ZeroDivisionError" -> "division by zero"
      [] class = "NameError"         -> "name is not defined"
      [] class = "TypeError"         -> "unsupported operand or object is not callable"
      [] class = "SystemExit"        -> "None"

\* calculate with `except (SyntaxError, ZeroDivisionError)` for its handler.
calculate_narrow_except(toks, zero) ==
    LET r == eval(toks, zero)
    IN IF r.st = "ok"
       THEN [outcome |-> "return", exc |-> "",
             text |-> <<"The result of ">> \o toks \o <<" is ", str(r.v)>>]
       ELSE IF r.exc \in {"SyntaxError", "ZeroDivisionError"}
       THEN [outcome |-> "return", exc |-> "",
             text |-> <<"Error calculating ">> \o toks \o <<": ", ExceptionStr(r.exc)>>]
       ELSE [outcome |-> "raise", exc |-> r.exc, text |-> <<>>]

\* calculate with {expression} where the f-string means {result}.
calculate_prints_expression(toks, zero) ==
    LET r == eval(toks, zero)
    IN IF r.st = "ok"
       THEN [outcome |-> "return", exc |-> "",
             text |-> <<"The result of ">> \o toks \o <<" is ">> \o toks]
       ELSE IF IsException(r.exc)
       THEN [outcome |-> "return", exc |-> "",
             text |-> <<"Error calculating ">> \o toks \o <<": ", ExceptionStr(r.exc)>>]
       ELSE [outcome |-> "raise", exc |-> r.exc, text |-> <<>>]

\* calculate(expression): what the call does, "return" with the text (a
\* sequence of pieces, the expression's tokens among them) or "raise".
calculate(toks, zero) ==
    LET r == eval(toks, zero)
    IN IF r.st = "ok"
       THEN [outcome |-> "return", exc |-> "",
             text |-> <<"The result of ">> \o toks \o <<" is ", str(r.v)>>]
       ELSE IF IsException(r.exc)
       THEN [outcome |-> "return", exc |-> "",
             text |-> <<"Error calculating ">> \o toks \o <<": ", ExceptionStr(r.exc)>>]
       ELSE [outcome |-> "raise", exc |-> r.exc, text |-> <<>>]

MaxExprLen == 4

ArithmeticTokens == {"0", "2", "3", "+", "-", "*", "/", "(", ")"}

RECURSIVE SeqsUpTo(_, _)
SeqsUpTo(S, n) ==
    IF n = 0 THEN {<<>>}
    ELSE LET shorter == SeqsUpTo(S, n - 1)
         IN shorter \cup {Append(q, t) : q \in shorter, t \in S}

\* The expressions the model gives the tool, beside every token sequence
\* of length up to MaxExprLen.
SampleExpressions ==
    {<<"15", "*", "24", "+", "7">>, <<"2", "+">>,
     <<"exit", "(", ")">>, <<"quit", "(", "2", ")">>, <<"exit">>, <<"x">>,
     <<"x", "(", ")">>, <<"exit", "(", ")", "+">>, <<"exit", "(", "x", ")">>,
     <<"2", "/", "0", "+", "x">>, <<"x", "+", "2", "/", "0">>,
     <<"exit", "+", "2">>, <<"-", "(", "0", "/", "2", ")">>,
     <<"(", "2", "+", "3", ")", "*", "(", "7", "-", "15", ")">>,
     <<"2", "/", "3", "+", "2", "/", "3">>, <<"7", "/", "24", "*", "24">>,
     <<"2", "/", "(", "7", "/", "24", "*", "24", "-", "7", ")">>,
     <<"2", "/", "(", "2", "/", "3", "*", "3", "-", "2", ")", "+", "exit", "(", ")">>,
     <<"exit", "(", "*", "(", ")", ")">>, <<"3", "/", "2", "/", "2", "/", "2">>}

Expressions == SeqsUpTo(ArithmeticTokens, MaxExprLen) \cup SampleExpressions

CalcIdle ==
    /\ expression = <<>>
    /\ calc = None

CalcInit ==
    /\ expression \in Expressions
    /\ calc = None

\* The library calls the tool with the expression the model asked for.
Calculate ==
    /\ calc = None
    /\ \E zero \in BOOLEAN : calc' = Some(calculate(expression, zero))
    /\ UNCHANGED <<expression, script, configVars, guardVars, mainVars>>

(***************************************************************************)
(* The query loop of main()                                                *)
(*                                                                         *)
(* Runner.run, the guardrail tripwire and the handoff transfer belong to   *)
(* the agent-orchestration library.  What the library does inside one run  *)
(* is a nondeterministic choice here, within its documented interface: a   *)
(* run returns a result or raises, it raises when an input guardrail's     *)
(* tripwire fired, and it transfers control only to a handoff target the   *)
(* current agent declares.                                                 *)
(***************************************************************************)
BasicQueries == <<"What are the benefits of cloud computing?">>

ToolsQueries == <<"What's the weather like in London, UK?",
                  "Search for information about renewable energy",
                  "Calculate 15 * 24 + 7">>

HandoffsQuestions == <<"Can you help me solve this equation: 3x + 7 = 22?",
                       "What were the main causes of World War I?",
                       "How does photosynthesis work in plants?">>

GuardrailsQueries == <<"Can you explain how photosynthesis works?",
                       "Do my homework for me: solve x^2 + 5x + 6 = 0",
                       "What are the key themes in Shakespeare's Macbeth?">>

Queries(s) ==
    CASE s = "basic"      -> BasicQueries
      [] s = "tools"      -> ToolsQueries
      [] s = "handoffs"   -> HandoffsQuestions
      [] s = "guardrails" -> GuardrailsQueries

\* The agent each script hands to Runner.run.
TopAgent(s) ==
    CASE s = "basic"      -> "Assistant"
      [] s = "tools"      -> "Research Assistant"
      [] s = "handoffs"   -> "Education Assistant"
      [] s = "guardrails" -> "Education Assistant"

\* HandoffTargets with handoffs=[math_agent] given to the Science Tutor.
HandoffTargetsOfSpecialist(agent) ==
    CASE agent = "Education Assistant" -> {"Math Tutor", "History Tutor", "Science Tutor"}
      [] agent = "Science Tutor"       -> {"Math Tutor"}
      [] OTHER                         -> {}

\* handoffs=[...] of each agent of agent_with_handoffs.py; an agent built
\* without the argument declares none.
HandoffTargets(agent) ==
    IF agent = "Education Assistant"
    THEN {"Math Tutor", "History Tutor", "Science Tutor"}
    ELSE {}

\* input_guardrails=[...] of the Education Assistant of agent_with_guardrails.py.
InputGuardrails(s) ==
    IF s = "guardrails" THEN <<"content_safety", "homework">> ELSE <<>>

Line(kind, q, text) == [line |-> kind, q |-> q, text |-> text]

\* What one loop iteration prints before it calls Runner.run.
UserLines(s, q) ==
    <<Line("User", q, Queries(s)[q])>>
    \o (IF s \in {"handoffs", "guardrails"} THEN <<Line("Processing", q, "")>> ELSE <<>>)

RECURSIVE HandoffLines(_, _, _)
HandoffLines(q, handoffs, i) ==
    IF i > Len(handoffs) THEN <<>>
    ELSE <<Line("Handoff", q, ToString(i) \o ". " \o handoffs[i].from_agent
                                \o " -> " \o handoffs[i].to_agent)>>
         \o HandoffLines(q, handoffs, i + 1)

\* What one loop iteration prints once Runner.run returned `result`.
\* result.handoff_history is None when the result has no such attribute.
AgentLines(s, q, result) ==
    <<Line("Agent", q, result.final_output)>>
    \o (IF s = "handoffs" /\ result.handoff_history # None
                          /\ result.handoff_history[1] # <<>>
        THEN <<Line("Handoff Path", q, "")>>
             \o HandoffLines(q, result.handoff_history[1], 1)
        ELSE <<>>)

\* CatchesException with no script catching, and with every script catching.
CatchesExceptionNowhere(s) == FALSE
CatchesExceptionEverywhere(s) == TRUE

\* Whether the script wraps the call in try / except Exception.
CatchesException(s) == s = "guardrails"

\* ExceptLines printing the failure as an answer.
ExceptLinesAsAgent(q, e) == <<Line("Agent", q, e.msg)>>

\* What the except branch prints for exception e.
ExceptLines(q, e) == <<Line("Guardrail triggered", q, e.msg)>>

\* NextQuery of a loop that tries a failed query again.
NextQueryRetrying(q, failed) == IF failed THEN q ELSE q + 1

\* The query the loop turns to once query q is finished; `failed` is
\* whether the run call for q raised (and the exception was caught).
NextQuery(q, failed) == q + 1

\* ---- the library
TripwireException ==
    [class |-> "InputGuardrailTripwireTriggered",
     msg   |-> "Guardrail InputGuardrail triggered tripwire"]

RuntimeExceptions ==
    {[class |-> "APIConnectionError", msg |-> "Connection error."],
     [class |-> "AuthenticationError", msg |-> "Error code: 401"]}

\* The run is aborted when any input guardrail's tripwire fired.
TripwireFired(results) ==
    \E i \in 1..Len(results) : results[i].tripwire_triggered

FinalOutputs == {"", "answer"}

\* Classification outputs the guardrail agents may produce inside a run.
RunReasonings == {"", "a"}

MaxHandoffs == 3

MainIdle ==
    /\ pc = "idle"
    /\ k = 0
    /\ stdout = <<>>
    /\ calls = <<>>
    /\ inflight = {}
    /\ guard_results = <<>>
    /\ tripped = <<>>
    /\ current_agent = ""
    /\ handoff_history = <<>>

MainInit ==
    /\ script \in Scripts
    /\ pc = "loop"
    /\ k = 1
    /\ stdout = <<>>
    /\ calls = [q \in 1..Len(Queries(script)) |-> 0]
    /\ inflight = {}
    /\ guard_results = <<>>
    /\ tripped = [q \in 1..Len(Queries(script)) |-> {}]
    /\ current_agent = ""
    /\ handoff_history = <<>>

AfterQuery(q, failed) ==
    IF NextQuery(q, failed) > Len(Queries(script)) THEN "done" ELSE "loop"

\* print the query, then result = await Runner.run(agent, query)
StartRun ==
    /\ pc = "loop"
    /\ k <= Len(Queries(script))
    /\ stdout' = stdout \o UserLines(script, k)
    /\ calls' = [calls EXCEPT ![k] = @ + 1]
    /\ inflight' = inflight \cup {k}
    /\ current_agent' = TopAgent(script)
    /\ handoff_history' = <<>>
    /\ guard_results' = <<>>
    /\ pc' = "awaiting"
    /\ UNCHANGED <<script, k, tripped, configVars, guardVars, calcVars>>

\* Inside the run: the library calls the agent's input guardrails.
RunInputGuardrails ==
    /\ pc = "awaiting"
    /\ InputGuardrails(script) # <<>>
    /\ guard_results = <<>>
    /\ \E cs \in [is_safe : BOOLEAN, reasoning : RunReasonings],
          hw \in [is_homework : BOOLEAN, reasoning : RunReasonings] :
          LET results == <<content_safety_guardrail(cs), homework_guardrail(hw)>>
          IN /\ guard_results' = results
             /\ tripped' = [tripped EXCEPT ![k] =
                   {InputGuardrails(script)[i] : i \in
                       {j \in 1..Len(results) : results[j].tripwire_triggered}}]
    /\ UNCHANGED <<script, pc, k, stdout, calls, inflight, current_agent,
                   handoff_history, configVars, guardVars, calcVars>>

\* Inside the run: the current agent hands off to one of its targets.
Handoff ==
    /\ pc = "awaiting"
    /\ Len(handoff_history) < MaxHandoffs
    /\ \E target \in HandoffTargets(current_agent) :
          /\ handoff_history' = Append(handoff_history,
                 [from_agent |-> current_agent, to_agent |-> target])
          /\ current_agent' = target
    /\ UNCHANGED <<script, pc, k, stdout, calls, inflight, guard_results,
                   tripped, configVars, guardVars, calcVars>>

\* The run returns; the loop prints the result and moves on.
RunReturns ==
    /\ pc = "awaiting"
    /\ InputGuardrails(script) # <<>> =>
          guard_results # <<>> /\ ~TripwireFired(guard_results)
    /\ \E out \in FinalOutputs, has_history \in BOOLEAN :
          stdout' = stdout \o AgentLines(script, k,
              [final_output    |-> out,
               handoff_history |-> IF has_history THEN Some(handoff_history)
                                   ELSE None])
    /\ inflight' = inflight \ {k}
    /\ k' = NextQuery(k, FALSE)
    /\ pc' = AfterQuery(k, FALSE)
    /\ UNCHANGED <<script, calls, guard_results, tripped, current_agent,
                   handoff_history, configVars, guardVars, calcVars>>

\* The run raises e: the tripwire exception when a tripwire fired, a
\* transport or runtime failure otherwise.
RunRaises ==
    /\ pc = "awaiting"
    /\ \E e \in RuntimeExceptions \cup {TripwireException} :
          /\ (e = TripwireException) <=> TripwireFired(guard_results)
          /\ IF CatchesException(script)
             THEN /\ stdout' = stdout \o ExceptLines(k, e)
                  /\ k' = NextQuery(k, TRUE)
                  /\ pc' = AfterQuery(k, TRUE)
             ELSE /\ pc' = "raised"
                  /\ UNCHANGED <<stdout, k>>
    /\ inflight' = inflight \ {k}
    /\ UNCHANGED <<script, calls, guard_results, tripped, current_agent,
                   handoff_history, configVars, guardVars, calcVars>>

(***************************************************************************)
(* Specifications                                                          *)
(***************************************************************************)
InitConfig == ConfigInit /\ GuardIdle /\ MainIdle /\ CalcIdle
NextConfig == CreateClient \/ CreateModel
SpecConfig == InitConfig /\ [][NextConfig]_vars

InitGuardrail == GuardInit /\ script = "guardrails" /\ ConfigIdle /\ MainIdle /\ CalcIdle
NextGuardrail == ContentSafetyGuardrail \/ HomeworkGuardrail
SpecGuardrail == InitGuardrail /\ [][NextGuardrail]_vars

InitCalc == CalcInit /\ script = "tools" /\ ConfigIdle /\ GuardIdle /\ MainIdle
NextCalc == Calculate
SpecCalc == InitCalc /\ [][NextCalc]_vars

InitMain == MainInit /\ ConfigIdle /\ GuardIdle /\ CalcIdle
NextMain == StartRun \/ RunInputGuardrails \/ Handoff \/ RunReturns \/ RunRaises
SpecMain == InitMain /\ [][NextMain]_vars

(***************************************************************************)
(* Properties                                                              *)
(***************************************************************************)
Queried == 1..Len(Queries(script))

LinesOf(kinds, q) ==
    {i \in 1..Len(stdout) : stdout[i].line \in kinds /\ stdout[i].q = q}

\* The run call for query q was made and has returned or raised.
Completed(q) == calls[q] > 0 /\ q \notin inflight

\* ---- C1
\* C1: each guardrail wrapper returns tripwire_triggered = true if and only
\* if the classification flags the input: is_safe = False for the content
\* safety check, is_homework = True for the homework check.
TripwireIffFlagged ==
    guardrail_output # None =>
        /\ guardrail = "content_safety" =>
              (guardrail_output[1].tripwire_triggered <=> (final_output.is_safe = FALSE))
        /\ guardrail = "homework" =>
              (guardrail_output[1].tripwire_triggered <=> (final_output.is_homework = TRUE))
        /\ guardrail_output[1].output_info = final_output

TripwireWitness ==
    /\ guardrail = "content_safety"
    /\ guardrail_output # None
    /\ final_output.is_safe = FALSE
    /\ guardrail_output[1].tripwire_triggered

\* ---- C2
\* C2: the message a guardrail wrapper returns is a non-empty string exactly
\* when tripwire_triggered is true and None exactly when it is false, also
\* for an empty reasoning text.
MessageIffTripwire ==
    guardrail_output # None =>
        LET out == guardrail_output[1]
        IN /\ out.tripwire_triggered => out.message # None /\ Len(out.message[1]) > 0
           /\ ~out.tripwire_triggered => out.message = None

MessageWitness ==
    /\ guardrail = "homework"
    /\ guardrail_output # None
    /\ final_output.reasoning = ""
    /\ guardrail_output[1].tripwire_triggered
    /\ guardrail_output[1].message = Some("Homework policy: ")

\* ---- C3
ErrorText(text) == Len(text) > 0 /\ text[1] = "Error calculating "

\* C3 as stated: calculate never raises, whatever goes wrong while the
\* expression is evaluated.
CalculateNeverRaises ==
    calc # None => calc[1].outcome = "return"

\* C3 as amended: calculate returns the error text for every expression that
\* does not compile and for every failure of the evaluation that is an
\* Exception; what it lets through is an exit of the BaseException kind only
\* (SystemExit from a call of exit or quit), and the error text is returned
\* for nothing but a failure.
CalculateCatchesExceptions ==
    calc # None =>
        \E zero \in BOOLEAN :
            LET r == eval(expression, zero)
                c == calc[1]
            IN /\ ~Compile(expression).ok => c.outcome = "return" /\ ErrorText(c.text)
               /\ (r.st = "raise" /\ r.exc \in {"SyntaxError", "ZeroDivisionError",
                                               "NameError", "TypeError"})
                     => c.outcome = "return" /\ ErrorText(c.text)
               /\ c.outcome = "raise" => r.st = "raise" /\ c.exc = "SystemExit"
               /\ (c.outcome = "return" /\ ErrorText(c.text)) => r.st = "raise"

CalculateErrorWitness ==
    /\ expression = <<"2", "+">>
    /\ calc # None
    /\ calc[1].outcome = "return"
    /\ calc[1].text = <<"Error calculating ", "2", "+", ": ",
                        "invalid syntax (<string>, line 1)">>

\* ---- C4
\* The arithmetic reading of an expression, apart from the tool: a sum
\* splits at its last + or - outside parentheses, a product at its last
\* * or /.  [wf, dz, n, d]: well formed, divides by zero, the value n/d.
Malformed == [wf |-> FALSE, dz |-> FALSE, n |-> 0, d |-> 1]
Quotient(n, d) ==
    LET g == Gcd(Abs(n), Abs(d))
    IN [wf |-> TRUE, dz |-> FALSE,
        n |-> IF d < 0 THEN -(n \div g) ELSE n \div g, d |-> Abs(d) \div g]

RECURSIVE Depth(_, _, _)
Depth(toks, i, p) ==
    IF p <= i THEN 0
    ELSE Depth(toks, i, p - 1) + (CASE toks[p - 1] = "(" -> 1
                                    [] toks[p - 1] = ")" -> -1
                                    [] OTHER -> 0)

\* The binary operators of `ops` in toks[i..j] outside parentheses: the
\* ones that follow an operand.
BinaryAt(toks, i, j, ops) ==
    {p \in (i + 1)..(j - 1) : /\ toks[p] \in ops
                              /\ Depth(toks, i, p) = 0
                              /\ toks[p - 1] \in NumberTokens \cup {")"}}

Last(P) == CHOOSE p \in P : \A q \in P : q <= p

Apply(op, a, b) ==
    IF ~a.wf \/ ~b.wf THEN Malformed
    ELSE IF a.dz \/ b.dz \/ (op = "/" /\ b.n = 0)
    THEN [wf |-> TRUE, dz |-> TRUE, n |-> 0, d |-> 1]
    ELSE CASE op = "+" -> Quotient(a.n * b.d + b.n * a.d, a.d * b.d)
           [] op = "-" -> Quotient(a.n * b.d - b.n * a.d, a.d * b.d)
           [] op = "*" -> Quotient(a.n * b.n, a.d * b.d)
           [] op = "/" -> Quotient(a.n * b.d, a.d * b.n)

RECURSIVE SumValue(_, _, _), ProductValue(_, _, _), SignedValue(_, _, _)

SignedValue(toks, i, j) ==
    IF i > j THEN Malformed
    ELSE IF toks[i] = "-" THEN Apply("-", Quotient(0, 1), SignedValue(toks, i + 1, j))
    ELSE IF toks[i] = "+" THEN SignedValue(toks, i + 1, j)
    ELSE IF i = j THEN IF toks[i] \in NumberTokens THEN Quotient(NumberValue(toks[i]), 1)
                       ELSE Malformed
    ELSE IF /\ toks[i] = "(" /\ toks[j] = ")"
            /\ \A p \in (i + 1)..j : Depth(toks, i, p) >= 1
    THEN SumValue(toks, i + 1, j - 1)
    ELSE Malformed

ProductValue(toks, i, j) ==
    LET P == BinaryAt(toks, i, j, {"*", "/"})
    IN IF P = {} THEN SignedValue(toks, i, j)
       ELSE Apply(toks[Last(P)], ProductValue(toks, i, Last(P) - 1),
                  SignedValue(toks, Last(P) + 1, j))

SumValue(toks, i, j) ==
    LET P == BinaryAt(toks, i, j, {"+", "-"})
    IN IF P = {} THEN ProductValue(toks, i, j)
       ELSE Apply(toks[Last(P)], SumValue(toks, i, Last(P) - 1),
                  ProductValue(toks, Last(P) + 1, j))

Arithmetic(toks) == SumValue(toks, 1, Len(toks))

\* How Python prints a number equal to n/d: the int, or a float that is
\* n/d exactly or up to rounding.
ResultTexts(a) ==
    (IF a.d = 1 THEN {ToString(a.n)} ELSE {})
    \cup {str([k |-> "float", n |-> a.n, d |-> a.d, neg |-> neg, lvl |-> lvl]) :
             neg \in (IF a.n = 0 THEN BOOLEAN ELSE {a.n < 0}),
             lvl \in {IF IsPowerOfTwo(a.d) THEN "exact" ELSE "rounded", "approx"}}

Contains(text, part) ==
    \E i \in 0..(Len(text) - Len(part)) : SubSeq(text, i + 1, i + Len(part)) = part

ResultReturned(value) ==
    /\ calc[1].outcome = "return"
    /\ Contains(calc[1].text, expression)
    /\ \E i \in 1..Len(calc[1].text) : calc[1].text[i] \in ResultTexts(value)
    /\ ~ErrorText(calc[1].text)

TripwireAbortsRun ==
    script = "guardrails" =>
        \A q \in Queried :
            /\ tripped[q] # {} =>
                  /\ LinesOf({"Agent"}, q) = {}
                  /\ Completed(q) => Cardinality(LinesOf({"Guardrail triggered"}, q)) = 1
            /\ LinesOf({"Agent"}, q) # {} => tripped[q] = {}

TripwireAbortsWitness ==
    /\ script = "guardrails"
    /\ pc = "done"
    /\ tripped[1] = {}
    /\ tripped[2] = {"homework"}
    /\ tripped[3] = {"content_safety", "homework"}
    /\ LinesOf({"Agent"}, 1) # {}
    /\ LinesOf({"Guardrail triggered"}, 2) # {}
    /\ LinesOf({"Guardrail triggered"}, 3) # {}

\* ---- C6
\* C6: in the guardrails script main never raises on a failed run call: the
\* failure, tripwire or not, is printed as one "Guardrail triggered" line and
\* the loop goes on, so that every query the loop has passed has exactly one
\* of the two result lines and all three have one when main returns.
EveryQueryReported ==
    script = "guardrails" =>
        /\ pc # "raised"
        /\ \A q \in Queried :
              Cardinality(LinesOf({"Agent", "Guardrail triggered"}, q))
                  = (IF Completed(q) THEN 1 ELSE 0)
        /\ \A i \in 1..Len(stdout) :
              stdout[i].line = "Guardrail triggered" =>
                  stdout[i].text \in {e.msg : e \in RuntimeExceptions \cup {TripwireException}}
        /\ pc = "done" => \A q \in Queried : Completed(q) /\ LinesOf({"User"}, q) # {}

EveryQueryReportedWitness ==
    /\ script = "guardrails"
    /\ pc = "done"
    /\ \E i \in LinesOf({"Guardrail triggered"}, 1) : stdout[i].text = TripwireException.msg
    /\ \E i \in LinesOf({"Guardrail triggered"}, 2) : stdout[i].text = "Connection error."
    /\ LinesOf({"Agent"}, 3) # {}

\* ---- C7
\* C7 as stated: the handoff example never hands off more than once per
\* query and always produces a non-empty final output for every query.
HandoffsAlwaysAnswer ==
    script = "handoffs" =>
        /\ Len(handoff_history) <= 1
        /\ pc \in {"done", "raised"} =>
              \A q \in Queried : \E i \in LinesOf({"Agent"}, q) : stdout[i].text # ""

\* C7 as amended: the handoff example never hands off more than once per
\* query (only the triage agent declares handoff targets), and prints one
\* "Agent:" line, with the run's final output, for every query whose run
\* call returned; a run call that raises ends main with no output for that
\* query.
HandoffsAtMostOnce ==
    script = "handoffs" =>
        /\ Len(handoff_history) <= 1
        /\ \A i \in 1..Len(handoff_history) :
              handoff_history[i].from_agent = "Education Assistant"
        /\ \A q \in Queried :
              /\ Cardinality(LinesOf({"Handoff"}, q)) <= 1
              /\ Cardinality(LinesOf({"Agent"}, q))
                    = (IF Completed(q) /\ ~(pc = "raised" /\ q = k) THEN 1 ELSE 0)
              /\ \A i \in LinesOf({"Agent"}, q) : stdout[i].text \in FinalOutputs

HandoffsWitness ==
    /\ script = "handoffs"
    /\ pc = "done"
    /\ Len(handoff_history) = 1
    /\ handoff_history[1].to_agent = "Science Tutor"
    /\ \A q \in Queried : \E i \in LinesOf({"Agent"}, q) : stdout[i].text = "answer"
    /\ \E i \in LinesOf({"Handoff"}, 3) :
          stdout[i].text = "1. Education Assistant -> Science Tutor"

\* ---- C8
\* C8: in every script the queries are run one after the other, in list
\* order and once each: at most one top-level run call is in flight, a
\* query's run starts only after the run of the query before it is over,
\* and no query is run twice, whatever its outcome.
RunsSequentialOnce ==
    /\ Cardinality(inflight) <= 1
    /\ \A q \in Queried :
          /\ calls[q] <= 1
          /\ q \in inflight => q = k /\ pc = "awaiting" /\ calls[q] = 1
          /\ (q > 1 /\ calls[q] > 0) => Completed(q - 1)

RunsSequentialWitness ==
    /\ script = "tools"
    /\ pc = "awaiting"
    /\ k = 2
    /\ calls = <<1, 1, 0>>
    /\ inflight = {2}

\* ---- C10
\* C10: in the basic, tools and handoffs scripts a run call that raises ends
\* main: the failed query gets no "Agent:" line and no later query is run
\* or printed, and nothing is printed for a failure; the loop goes past a
\* query only with its "Agent:" line printed.  The guardrails script goes
\* on instead: its main never raises.
FailureEndsScript ==
    /\ script # "guardrails" =>
          /\ \A q \in Queried :
                /\ LinesOf({"Guardrail triggered"}, q) = {}
                /\ q < k => LinesOf({"Agent"}, q) # {}
          /\ pc = "raised" =>
                /\ inflight = {}
                /\ Completed(k)
                /\ LinesOf({"Agent"}, k) = {}
                /\ \A q \in Queried :
                      q > k => calls[q] = 0 /\ LinesOf({"User", "Agent"}, q) = {}
    /\ script = "guardrails" => pc # "raised"

FailureEndsWitness ==
    /\ script = "tools"
    /\ pc = "raised"
    /\ k = 2
    /\ LinesOf({"Agent"}, 1) # {}
    /\ LinesOf({"User"}, 2) # {}
    /\ calls = <<1, 1, 0>>

\* ---- C9
\* C9: in all four scripts the client is built from exactly api_key,
\* api_version and azure_endpoint and the model from the deployment name
\* and that client, each the value of its environment variable (None when
\* unset), the version being "2024-05-01-preview" when
\* AZURE_OPENAI_API_VERSION is unset and the variable's value when set.
ConfigFromEnvironment ==
    /\ azure_openai_client # None =>
          LET c == azure_openai_client[1]
          IN /\ DOMAIN c = {"api_key", "api_version", "azure_endpoint"}
             /\ c.api_key = env["AZURE_OPENAI_API_KEY"]
             /\ c.azure_endpoint = env["AZURE_OPENAI_ENDPOINT"]
             /\ env["AZURE_OPENAI_API_VERSION"] = None =>
                   c.api_version = Some("2024-05-01-preview")
             /\ env["AZURE_OPENAI_API_VERSION"] # None =>
                   c.api_version = env["AZURE_OPENAI_API_VERSION"]
    /\ model_config # None =>
          /\ DOMAIN model_config[1] = {"model", "openai_client"}
          /\ model_config[1].model = env["AZURE_OPENAI_DEPLOYMENT"]
          /\ model_config[1].openai_client = azure_openai_client[1]

ConfigWitness ==
    /\ script = "handoffs"
    /\ cpc = "model"
    /\ env["AZURE_OPENAI_API_VERSION"] = None
    /\ env["AZURE_OPENAI_DEPLOYMENT"] = Some("v")
    /\ model_config[1].model = Some("v")
    /\ model_config[1].openai_client.api_version = Some("2024-05-01-preview")

====
